---- MODULE Spec2Model ----
(***************************************************************************)
(* Model of b_plus.c: a B+ tree kept in one index file.  The file is the   *)
(* header record at offset 0 followed by node records.  The model keeps    *)
(* the stdio view of the file (a position, fseek/fread/fwrite on whole     *)
(* records), the one node buffer opt->p, the in-memory header and the      *)
(* progress of insert_value / node_overflow through their loops.           *)
(*                                                                         *)
(* stdio is modelled as on POSIX: fseek to a negative position fails and   *)
(* leaves the position alone, fread at end of file reads nothing and       *)
(* leaves the buffer alone.  Uninitialised storage (the malloc'ed node     *)
(* buffer, the unset slots of node_overflow's local arrays) takes any      *)
(* value of GarbageKeys / StackKeys / GarbageBlocks.  Record sizes are     *)
(* those of the MACHINE_16 build the source selects (2-byte int and        *)
(* size_t, 4-byte long, no padding).  A read that starts inside a record   *)
(* (only a garbage child reference leads there) loads the bytes found      *)
(* there; the model stops following the program at that point ("wild").    *)
(***************************************************************************)
EXTENDS Integers, Sequences, FiniteSets, TLC

\* ---- program constants ----
TREE_ORDER == 4
NO_BLOCK == -1
HeaderSize == 10
BlockSize == 36
SUCCESS == 0
INV_DATA_PTR == -3
E_OPEN_FILE == -5
E_TREE_EMPTY == -11
E_INCOMPATIBLE_VERSION == -12

\* ---- bounds of the model ----
MaxVal == 6
MaxInserts == 7
MaxOpens == 2
MaxLate == 2
MaxSearchIns == 2

\* marker of a slot of a local array that has not been assigned yet
UNINIT == -9

Values == 0..MaxVal
GarbageKeys == {0, MaxVal}
StackKeys == {0, 1, MaxVal}
GarbageBlocks == {NO_BLOCK, HeaderSize, HeaderSize + 6}

KeyIdx == 0..(TREE_ORDER - 1)
BlockIdx == 0..TREE_ORDER

VARIABLES
  h,          \* header_t header of main (in memory)
  hdisk,      \* the header record at offset 0 of the file
  file,       \* the node records of the file, in file order
  pos,        \* file position of opt->iop
  unflushed,  \* offsets of the records fwrite left in the buffer of opt->iop
  p,          \* the node buffer *opt->p
  exists,     \* the index file exists on disk
  isOpen,     \* options.iop # NULL
  pc,         \* "idle" | "descend" | "overflow" | "exit" | "wild" | "misfit"
  value,      \* the argument of the running insert_value
  left_keys,  \* node_overflow locals
  right_keys,
  temp_key,
  temp_block,
  ret,        \* status_t returned by the last insert_value
  inserted,   \* history: values insert_value was called with and returned SUCCESS
  nIns,       \* history: number of insert_value calls
  nOpens,     \* history: number of CREATE and OPEN choices
  callPresent,\* history: the running/last call's value had been inserted before
  callBlocks, \* history: node records in the file when the running/last call began
  allDistinct,\* history: no value was passed to insert_value twice
  allocLog,   \* history: blocks created, <<offset written, file size then>>
  lastSplit   \* history: the split done by the last step, or NoSplit

vars == <<h, hdisk, file, pos, unflushed, p, exists, isOpen, pc, value, left_keys,
          right_keys, temp_key, temp_block, ret, inserted, nIns, nOpens,
          callPresent, callBlocks, allDistinct, allocLog, lastSplit>>

NoSplit == [kind |-> "none", left |-> NO_BLOCK, right |-> NO_BLOCK]

\* ---- the file as stdio sees it ----
FileSize(f) == HeaderSize + Len(f) * BlockSize

IsBlockOff(f, o) ==
  /\ o >= HeaderSize
  /\ (o - HeaderSize) % BlockSize = 0
  /\ (o - HeaderSize) \div BlockSize < Len(f)

Idx(o) == ((o - HeaderSize) \div BlockSize) + 1

Off(i) == HeaderSize + (i - 1) * BlockSize

\* fseek(iop, o, SEEK_SET): the new position
FseekSet(cur, o) == IF o < 0 THEN cur ELSE o

\* fseek(iop, -block_size, SEEK_CUR): the new position
FseekBack(cur) == IF cur - BlockSize < 0 THEN cur ELSE cur - BlockSize

\* the 16-bit words of a long, and the long of two words
LoWord(x) == x % 65536
HiWord(x) == (x \div 65536) % 65536
LongOf(lo, hi) == IF hi >= 32768 THEN (hi - 65536) * 65536 + lo ELSE hi * 65536 + lo

\* node_t (lines 47-54) as the MACHINE_16 build lays it out, in 16-bit words:
\* is_leaf, keys_used, key[0..3], block[0..4] (low word first), parent_block
WordsPerBlock == BlockSize \div 2

NodeWords(n) ==
  [k \in 1..WordsPerBlock |->
     IF k = 1 THEN (IF n.is_leaf THEN 1 ELSE 0)
     ELSE IF k = 2 THEN n.keys_used
     ELSE IF k <= 2 + TREE_ORDER THEN n.key[k - 3]
     ELSE IF k <= 2 + TREE_ORDER + 2 * (TREE_ORDER + 1)
       THEN LET j == k - 3 - TREE_ORDER
            IN IF j % 2 = 0 THEN LoWord(n.block[j \div 2])
               ELSE HiWord(n.block[j \div 2])
     ELSE IF k = WordsPerBlock - 1 THEN LoWord(n.parent_block)
     ELSE HiWord(n.parent_block)]

WordsNode(w) ==
  [is_leaf |-> (w[1] # 0),
   keys_used |-> w[2],
   key |-> [i \in KeyIdx |-> w[3 + i]],
   block |-> [i \in BlockIdx |->
                LongOf(w[3 + TREE_ORDER + 2 * i], w[4 + TREE_ORDER + 2 * i])],
   parent_block |-> LongOf(w[WordsPerBlock - 1], w[WordsPerBlock])]

\* the word of the file at the even byte offset o, HeaderSize <= o < FileSize(f)
WordAt(f, o) ==
  NodeWords(f[((o - HeaderSize) \div BlockSize) + 1])
           [(((o - HeaderSize) % BlockSize) \div 2) + 1]

\* an even position inside a record of the file, not at its start
InsideRecord(f, at) ==
  /\ at > HeaderSize
  /\ at < FileSize(f)
  /\ at % 2 = 0
  /\ (at - HeaderSize) % BlockSize # 0

\* the record image a read at such a position loads: the bytes found there; the
\* bytes past the end of the file are not read and stay as the buffer had them
ViewAt(f, at, buf) ==
  WordsNode([k \in 1..WordsPerBlock |->
               IF at + 2 * (k - 1) < FileSize(f) THEN WordAt(f, at + 2 * (k - 1))
               ELSE NodeWords(buf)[k]])

\* fread(opt->p, block_size, 1, iop) at position at, buffer buf
Fread(f, at, buf) ==
  IF IsBlockOff(f, at)
    THEN [p |-> f[Idx(at)], pos |-> at + BlockSize, wild |-> FALSE]
  ELSE IF InsideRecord(f, at)
    THEN [p |-> ViewAt(f, at, buf),
          pos |-> IF at + BlockSize <= FileSize(f) THEN at + BlockSize
                  ELSE FileSize(f),
          wild |-> TRUE]
  ELSE [p |-> buf, pos |-> at, wild |-> FALSE]

\* fwrite(opt->p, block_size, 1, iop) at position at: the new records
Fwrite(f, at, buf) ==
  IF IsBlockOff(f, at) THEN [f EXCEPT ![Idx(at)] = buf]
  ELSE IF at = FileSize(f) THEN Append(f, buf)
  ELSE f

UninitKeys == [i \in KeyIdx |-> UNINIT]
UninitBlocks == [i \in BlockIdx |-> UNINIT]

\* ---- insert_value ----

\* lines 366-368: the first position whose key is >= v, keys_used if none
SearchPos(n, v) ==
  IF \E i \in 0..(n.keys_used - 1) : v <= n.key[i]
    THEN CHOOSE i \in 0..(n.keys_used - 1) :
           /\ v <= n.key[i]
           /\ \A j \in 0..(i - 1) : ~(v <= n.key[j])
    ELSE n.keys_used

\* lines 373-379: v put at position np, later keys and blocks moved up by one
KeyInsert(n, np, v, blk) ==
  LET ku == n.keys_used + 1 IN
  [n EXCEPT
     !.keys_used = ku,
     !.key = [i \in KeyIdx |->
                IF i = np THEN v
                ELSE IF i > np /\ i <= ku - 1 THEN n.key[i - 1]
                ELSE n.key[i]],
     !.block = [i \in BlockIdx |->
                IF i = np + 1 THEN blk
                ELSE IF i > np + 1 /\ i <= ku THEN n.block[i - 1]
                ELSE n.block[i]]]

\* lines 348-353: the first node of the tree, built in the node buffer
FirstNode(buf, v, order) ==
  [buf EXCEPT
     !.key = [buf.key EXCEPT ![0] = v],
     !.keys_used = 1,
     !.parent_block = NO_BLOCK,
     !.is_leaf = FALSE,
     !.block = [i \in BlockIdx |-> IF i <= order THEN NO_BLOCK ELSE buf.block[i]]]

\* lines 415-417
LeftKeys(order, q) == (order \div 2) - q
RightKeys(order, q) == (order \div 2) + q - 1

\* main, lines 134-141, before the first menu choice.  The index file of the
\* model is the one file name the session uses.  The node buffer is not
\* allocated yet; what realloc will hand out is a block filled with one value
\* of GarbageKeys (every field but the key slots is assigned before it is read).
Init ==
  /\ h = [header_size |-> HeaderSize, block_size |-> BlockSize,
          tree_order |-> TREE_ORDER, root_block |-> NO_BLOCK]
  /\ hdisk = h
  /\ file = <<>>
  /\ pos = 0
  /\ unflushed = {}
  /\ exists = FALSE
  /\ isOpen = FALSE
  /\ nOpens = 0
  /\ \E g \in GarbageKeys :
       p = [is_leaf |-> FALSE, keys_used |-> 0,
            key |-> [i \in KeyIdx |-> g],
            block |-> [i \in BlockIdx |-> NO_BLOCK],
            parent_block |-> NO_BLOCK]
  /\ pc = "idle"
  /\ value = 0
  /\ left_keys = 0
  /\ right_keys = 0
  /\ temp_key = UninitKeys
  /\ temp_block = UninitBlocks
  /\ ret = SUCCESS
  /\ inserted = {}
  /\ nIns = 0
  /\ callPresent = FALSE
  /\ callBlocks = 0
  /\ allDistinct = TRUE
  /\ allocLog = <<>>
  /\ lastSplit = NoSplit

\* main, case INSERT: insert_value(&header,&options,v) up to its first loop
\* (lines 330-361); error() ends the program on a status other than SUCCESS.
\* With a header whose block_size is not sizeof(node_t) the fwrite of line 354
\* stores block_size bytes of the buffer, not a node_t record; the call returns
\* SUCCESS and the model stops following the program there ("misfit").
InsertBegin(v) ==
  /\ pc = "idle"
  /\ isOpen
  /\ nIns < MaxInserts
  /\ nIns' = nIns + 1
  /\ value' = v
  /\ callPresent' = (v \in inserted)
  /\ callBlocks' = Len(file)
  /\ lastSplit' = NoSplit
  /\ UNCHANGED <<left_keys, right_keys, temp_key, temp_block, exists, isOpen, nOpens>>
  /\ IF v = 0
       THEN /\ ret' = INV_DATA_PTR
            /\ pc' = "exit"
            /\ UNCHANGED <<h, hdisk, file, pos, unflushed, p, inserted, allDistinct,
                           allocLog>>
     ELSE IF h.tree_order > TREE_ORDER
       THEN /\ ret' = E_INCOMPATIBLE_VERSION
            /\ pc' = "exit"
            /\ UNCHANGED <<h, hdisk, file, pos, unflushed, p, inserted, allDistinct,
                           allocLog>>
     ELSE IF h.root_block = NO_BLOCK
       THEN LET h1 == [h EXCEPT !.root_block = h.header_size]
                p1 == FirstNode(p, v, h.tree_order)
                at == h.header_size
            IN /\ h' = h1
               /\ hdisk' = h1
               /\ p' = p1
               /\ file' = Fwrite(file, at, p1)
               /\ pos' = at + BlockSize
               /\ unflushed' = {}
               /\ allocLog' = Append(allocLog, <<at, FileSize(file)>>)
               /\ ret' = SUCCESS
               /\ pc' = IF h.block_size = BlockSize THEN "idle" ELSE "misfit"
               /\ inserted' = inserted \cup {v}
               /\ allDistinct' = (allDistinct /\ v \notin inserted)
     ELSE /\ pos' = FseekSet(pos, h.root_block)
          /\ unflushed' = {}
          /\ pc' = "descend"
          /\ UNCHANGED <<h, hdisk, file, p, ret, inserted, allDistinct, allocLog>>

\* insert_value: one pass of the while loop (lines 362-390), with the return
DescendStep ==
  /\ pc = "descend"
  /\ LET rd == Fread(file, pos, p)
         n == rd.p
         np == SearchPos(n, value)
     IN IF rd.wild
          THEN /\ p' = n
               /\ pos' = rd.pos
               /\ pc' = "wild"
               /\ UNCHANGED <<file, unflushed, ret, inserted, allDistinct, left_keys,
                              right_keys, allocLog>>
        ELSE IF value = n.key[np]
          THEN /\ p' = n
               /\ pos' = rd.pos
               /\ pc' = "idle"
               /\ ret' = SUCCESS
               /\ inserted' = inserted \cup {value}
               /\ allDistinct' = (allDistinct /\ value \notin inserted)
               /\ UNCHANGED <<file, unflushed, left_keys, right_keys, allocLog>>
        ELSE IF n.block[np + 1] = NO_BLOCK
          THEN LET n1 == KeyInsert(n, np, value, NO_BLOCK)
                   at == FseekBack(rd.pos)
               IN /\ p' = n1
                  /\ file' = Fwrite(file, at, n1)
                  /\ pos' = at + BlockSize
                  /\ unflushed' = {at}
                  /\ allocLog' = allocLog
                  /\ IF n1.keys_used = h.tree_order
                       THEN /\ pc' = "overflow"
                            /\ \E q \in {0, 1} :
                                 /\ left_keys' = LeftKeys(h.tree_order, q)
                                 /\ right_keys' = RightKeys(h.tree_order, q)
                            /\ UNCHANGED <<ret, inserted, allDistinct>>
                       ELSE /\ pc' = "idle"
                            /\ ret' = SUCCESS
                            /\ inserted' = inserted \cup {value}
                            /\ allDistinct' = (allDistinct /\ value \notin inserted)
                            /\ UNCHANGED <<left_keys, right_keys>>
        ELSE /\ p' = n
             /\ pos' = FseekSet(rd.pos, n.block[np + 1])
             /\ unflushed' = {}
             /\ UNCHANGED <<file, pc, ret, inserted, allDistinct, left_keys,
                            right_keys, allocLog>>
  /\ UNCHANGED <<h, hdisk, value, temp_key, temp_block, nIns, callPresent,
                 callBlocks, lastSplit,
                 exists, isOpen, nOpens>>

\* ---- node_overflow ----

\* lines 440-447 and 459-466: for(index=0;index<=opt->p->keys_used;++index),
\* the node buffer being reloaded by each pass.  st = [p, pos, f]
RECURSIVE ChildLoop(_, _, _)
ChildLoop(st, index, par_block) ==
  IF st.wild \/ ~(index <= st.p.keys_used) THEN st
  ELSE LET at == FseekSet(st.pos, st.p.block[index])
           rd == Fread(st.f, at, st.p)
           n  == [rd.p EXCEPT !.parent_block = par_block]
           wr == FseekBack(rd.pos)
       IN IF rd.wild
            THEN [p |-> rd.p, pos |-> rd.pos, f |-> st.f, wild |-> TRUE]
            ELSE ChildLoop([p |-> n, pos |-> wr + BlockSize,
                            f |-> Fwrite(st.f, wr, n), wild |-> FALSE],
                           index + 1, par_block)

\* lines 430-434: the left son, built in the node buffer
RootLeft(n, left, hs) ==
  [n EXCEPT !.parent_block = hs, !.keys_used = left]

\* lines 450-454: the right son, built in whatever the node buffer holds
RootRight(n, tk, tb, left, right, order) ==
  [n EXCEPT
     !.keys_used = right,
     !.key = [i \in KeyIdx |->
                IF i + left + 1 < order THEN tk[i + left + 1] ELSE n.key[i]],
     !.block = [i \in BlockIdx |->
                IF i + left + 1 <= order THEN tb[i + left + 1] ELSE n.block[i]]]

\* lines 471-473: the root, rewritten over its record as read back
RootNew(n, tk, left, left_block, right_block) ==
  [n EXCEPT
     !.keys_used = 1,
     !.parent_block = NO_BLOCK,
     !.key = [n.key EXCEPT ![0] = tk[left]],
     !.block = [n.block EXCEPT ![0] = left_block, ![1] = right_block]]

\* node_overflow: one pass of its while loop that splits the root (lines 421-479)
RootSplit ==
  /\ pc = "overflow"
  /\ p.parent_block = NO_BLOCK
  /\ LET ku == p.keys_used
         tk == [i \in KeyIdx |-> IF i < ku THEN p.key[i] ELSE temp_key[i]]
         tb == [i \in BlockIdx |-> IF i <= ku THEN p.block[i] ELSE temp_block[i]]
         pL == RootLeft(p, left_keys, h.header_size)
         left_block == FileSize(file)
         f1 == Fwrite(file, left_block, pL)
         st1 == ChildLoop([p |-> pL, pos |-> left_block + BlockSize, f |-> f1,
                           wild |-> FALSE], 0, left_block)
         pR == RootRight(st1.p, tk, tb, left_keys, right_keys, h.tree_order)
         right_block == st1.pos
         f2 == Fwrite(st1.f, right_block, pR)
         st2 == ChildLoop([p |-> pR, pos |-> right_block + BlockSize, f |-> f2,
                           wild |-> FALSE], 0, right_block)
         rd == Fread(st2.f, FseekSet(st2.pos, h.header_size), st2.p)
         pN == RootNew(rd.p, tk, left_keys, left_block, right_block)
         wr == FseekBack(rd.pos)
     IN IF st1.wild
          THEN /\ p' = st1.p
               /\ file' = st1.f
               /\ pos' = st1.pos
               /\ unflushed' = {}
               /\ pc' = "wild"
               /\ allocLog' = Append(allocLog, <<left_block, FileSize(file)>>)
               /\ UNCHANGED <<lastSplit, ret, inserted, allDistinct, temp_key,
                              temp_block>>
        ELSE IF st2.wild
          THEN /\ p' = st2.p
               /\ file' = st2.f
               /\ pos' = st2.pos
               /\ unflushed' = {}
               /\ pc' = "wild"
               /\ allocLog' = allocLog \o << <<left_block, FileSize(file)>>,
                                             <<right_block, FileSize(st1.f)>> >>
               /\ UNCHANGED <<lastSplit, ret, inserted, allDistinct, temp_key,
                              temp_block>>
        ELSE /\ p' = pN
             /\ file' = Fwrite(st2.f, wr, pN)
             /\ pos' = wr + BlockSize
             /\ unflushed' = {}
             /\ allocLog' = allocLog \o << <<left_block, FileSize(file)>>,
                                           <<right_block, FileSize(st1.f)>> >>
             /\ lastSplit' = [kind |-> "root", left |-> left_block,
                              right |-> right_block]
             /\ pc' = "idle"
             /\ ret' = SUCCESS
             /\ inserted' = inserted \cup {value}
             /\ allDistinct' = (allDistinct /\ value \notin inserted)
             /\ temp_key' = UninitKeys
             /\ temp_block' = UninitBlocks
  /\ UNCHANGED <<h, hdisk, value, left_keys, right_keys, nIns, callPresent, callBlocks,
                 exists, isOpen, nOpens>>

\* lines 492-496: the right part, built in the node buffer from the local arrays
NonRootRight(n, tk, tb, right) ==
  [n EXCEPT
     !.keys_used = right,
     !.key = [i \in KeyIdx |-> IF i + 1 <= right THEN tk[i + 1] ELSE n.key[i]],
     !.block = [i \in BlockIdx |-> IF i <= right THEN tb[i] ELSE n.block[i]]]

\* lines 500-502: where the promoted key goes in the parent
ParentPos(n, k) ==
  IF \E i \in 0..(n.keys_used - 1) : k < n.key[i]
    THEN CHOOSE i \in 0..(n.keys_used - 1) :
           /\ k < n.key[i]
           /\ \A j \in 0..(i - 1) : ~(k < n.key[j])
    ELSE n.keys_used

\* node_overflow: one pass of its while loop that splits a node other than the
\* root (lines 480-514).  The slots of temp_key and temp_block below left_keys are
\* never assigned: what is read from them is any value.
NonRootSplit ==
  /\ pc = "overflow"
  /\ p.parent_block # NO_BLOCK
  /\ \E gk \in [0..1 -> StackKeys], gb \in [0..1 -> GarbageBlocks] :
       LET ku == p.keys_used
           tk == [i \in KeyIdx |->
                    IF i >= left_keys /\ i < ku THEN p.key[i]
                    ELSE IF temp_key[i] = UNINIT /\ i < left_keys THEN gk[i]
                    ELSE temp_key[i]]
           tb == [i \in BlockIdx |->
                    IF i >= left_keys /\ i <= ku THEN p.block[i]
                    ELSE IF temp_block[i] = UNINIT /\ i < left_keys THEN gb[i]
                    ELSE temp_block[i]]
           pL == [p EXCEPT !.keys_used = left_keys]
           left_block == FseekBack(pos)
           f1 == Fwrite(file, left_block, pL)
           right_block == FileSize(f1)
           pR == NonRootRight(pL, tk, tb, right_keys)
           f2 == Fwrite(f1, right_block, pR)
           rd == Fread(f2, FseekSet(right_block + BlockSize, pR.parent_block), pR)
           np == ParentPos(rd.p, tk[0])
           pP == KeyInsert(rd.p, np, tk[0], right_block)
           wr == FseekBack(rd.pos)
       IN /\ p' = pP
          /\ file' = Fwrite(f2, wr, pP)
          /\ pos' = wr + BlockSize
          /\ unflushed' = {wr}
          /\ allocLog' = Append(allocLog, <<right_block, FileSize(f1)>>)
          /\ lastSplit' = [kind |-> "nonroot", left |-> left_block,
                           right |-> right_block]
          /\ IF pP.keys_used < h.tree_order
               THEN /\ pc' = "idle"
                    /\ ret' = SUCCESS
                    /\ inserted' = inserted \cup {value}
                    /\ allDistinct' = (allDistinct /\ value \notin inserted)
                    /\ temp_key' = UninitKeys
                    /\ temp_block' = UninitBlocks
               ELSE /\ temp_key' = tk
                    /\ temp_block' = tb
                    /\ UNCHANGED <<pc, ret, inserted, allDistinct>>
  /\ UNCHANGED <<h, hdisk, value, left_keys, right_keys, nIns, callPresent, callBlocks,
                 exists, isOpen, nOpens>>

\* exploration bound: once the store has been created or opened a second time,
\* at most MaxLate further calls of insert_value are followed
LateBudget ==
  IF nOpens = 0 \/ nIns >= MaxInserts - MaxLate THEN nIns
  ELSE MaxInserts - MaxLate

\* main, case CREATE (lines 153-162): close_tree, then open_tree with
\* file_exists false writes main's header as it stands to a new, empty file
Create ==
  /\ pc = "idle"
  /\ nOpens < MaxOpens
  /\ nOpens' = nOpens + 1
  /\ exists' = TRUE
  /\ isOpen' = TRUE
  /\ file' = <<>>
  /\ hdisk' = h
  /\ pos' = HeaderSize
  /\ unflushed' = {}
  /\ inserted' = {}
  /\ allDistinct' = TRUE
  /\ allocLog' = <<>>
  /\ lastSplit' = NoSplit
  /\ callPresent' = FALSE
  /\ callBlocks' = 0
  /\ nIns' = LateBudget
  /\ UNCHANGED <<h, p, pc, value, left_keys, right_keys, temp_key, temp_block,
                 ret>>

\* an OPEN that would set the header up as for a new store instead of reading
\* the one the file holds
OpenWithoutHeaderRead ==
  /\ pc = "idle"
  /\ nOpens < MaxOpens
  /\ exists
  /\ nOpens' = nOpens + 1
  /\ lastSplit' = NoSplit
  /\ unflushed' = {}
  /\ isOpen' = TRUE
  /\ h' = [hdisk EXCEPT !.root_block = NO_BLOCK]
  /\ pos' = HeaderSize
  /\ nIns' = nIns
  /\ UNCHANGED <<pc, ret, hdisk, file, p, exists, value, left_keys, right_keys,
                 temp_key, temp_block, inserted, callPresent, callBlocks,
                 allDistinct, allocLog>>

\* main, case OPEN (lines 163-172): close_tree, then open_tree with file_exists
\* true reads the header of the file into main's header; error() ends the
\* program when the file cannot be opened
Open ==
  /\ pc = "idle"
  /\ nOpens < MaxOpens
  /\ nOpens' = nOpens + 1
  /\ lastSplit' = NoSplit
  /\ unflushed' = {}
  /\ IF exists
       THEN /\ isOpen' = TRUE
            /\ h' = hdisk
            /\ pos' = HeaderSize
            /\ UNCHANGED <<pc, ret>>
       ELSE /\ isOpen' = FALSE
            /\ pc' = "exit"
            /\ ret' = E_OPEN_FILE
            /\ UNCHANGED <<h, pos>>
  /\ nIns' = LateBudget
  /\ UNCHANGED <<hdisk, file, p, exists, value, left_keys, right_keys, temp_key,
                 temp_block, inserted, callPresent, callBlocks, allDistinct,
                 allocLog>>

\* the orders of other builds of the program whose files may be opened
ForeignOrders == {TREE_ORDER - 1, TREE_ORDER + 1}

\* sizeof(node_t) of a build with TREE_ORDER k: is_leaf, keys_used, key[k],
\* block[k+1], parent_block
NodeSize(k) == 2 + 2 + 2 * k + 4 * (k + 1) + 4

\* main, case OPEN (lines 163-172) on a file that a build with TREE_ORDER k
\* created and left with an empty tree: open_tree reads its header
OpenForeign(k) ==
  /\ pc = "idle"
  /\ nOpens < MaxOpens
  /\ nOpens' = nOpens + 1
  /\ exists' = TRUE
  /\ isOpen' = TRUE
  /\ file' = <<>>
  /\ hdisk' = [root_block |-> NO_BLOCK, tree_order |-> k,
               header_size |-> HeaderSize, block_size |-> NodeSize(k)]
  /\ h' = hdisk'
  /\ pos' = HeaderSize
  /\ unflushed' = {}
  /\ inserted' = {}
  /\ allDistinct' = TRUE
  /\ allocLog' = <<>>
  /\ lastSplit' = NoSplit
  /\ callPresent' = FALSE
  /\ callBlocks' = 0
  /\ nIns' = LateBudget
  /\ UNCHANGED <<p, pc, value, left_keys, right_keys, temp_key, temp_block, ret>>

\* main, case CLOSE (lines 173-176): close_tree.  Followed while the store can
\* still be opened again within MaxOpens.
Close ==
  /\ pc = "idle"
  /\ isOpen
  /\ nOpens < MaxOpens
  /\ isOpen' = FALSE
  /\ lastSplit' = NoSplit
  /\ unflushed' = {}
  /\ UNCHANGED <<h, hdisk, file, pos, p, exists, pc, value, left_keys, right_keys,
                 temp_key, temp_block, ret, inserted, nIns, nOpens, callPresent,
                 callBlocks,
                 allDistinct, allocLog>>

\* main, case SEARCH (lines 188-195): read_word_t stores the value typed into
\* main's value; nothing is done with it and status is not assigned.  SEARCH
\* choices are followed while fewer than MaxSearchIns inserts have been made.
Search(v) ==
  /\ pc = "idle"
  /\ isOpen
  /\ nIns < MaxSearchIns
  /\ value' = v
  /\ UNCHANGED <<h, hdisk, file, pos, unflushed, p, exists, isOpen, pc, left_keys, right_keys,
                 temp_key, temp_block, ret, inserted, nIns, nOpens, callPresent,
                 callBlocks, allDistinct, allocLog, lastSplit>>

\* one session: the store is created once, then values are inserted
FirstCreate == nOpens = 0 /\ Create

Next ==
  \/ FirstCreate
  \/ \E v \in Values : InsertBegin(v)
  \/ \E v \in Values : Search(v)
  \/ DescendStep
  \/ RootSplit
  \/ NonRootSplit

Spec == Init /\ [][Next]_vars

\* the while loop of insert_value goes on while it is running: main is
\* sequential, nothing but the loop's own next pass can happen then
SpecLive == Init /\ [][Next]_vars /\ WF_vars(DescendStep)

\* any menu choices: the store may be closed, opened again or created again
NextMenu ==
  \/ Create
  \/ Open
  \/ \E k \in ForeignOrders : OpenForeign(k)
  \/ Close
  \/ \E v \in Values : InsertBegin(v)
  \/ \E v \in Values : Search(v)
  \/ DescendStep
  \/ RootSplit
  \/ NonRootSplit

SpecMenu == Init /\ [][NextMenu]_vars

\* ---- reading the stored tree ----
Ceil2(n) == (n + 1) \div 2

NodeAt(o) == file[Idx(o)]

\* the child references of a record: slots 0..keys_used that hold a block of the file
Children(n) ==
  {n.block[i] : i \in {j \in BlockIdx : j <= n.keys_used /\ IsBlockOff(file, n.block[j])}}

PopKeys(n) == {n.key[i] : i \in {j \in KeyIdx : j < n.keys_used}}

\* the blocks reachable from block o through child references
RECURSIVE Reach(_, _)
Reach(front, seen) ==
  LET new == (UNION {Children(NodeAt(o)) : o \in front}) \ seen
  IN IF new = {} THEN seen ELSE Reach(new, seen \cup new)

Subtree(o) == IF IsBlockOff(file, o) THEN Reach({o}, {o}) ELSE {}

KeysUnder(o) == UNION {PopKeys(NodeAt(x)) : x \in Subtree(o)}

AllOffs == {Off(i) : i \in 1..Len(file)}

\* lookup of section 4.5: the descent by the smallest i with keys[i] >= v, into
\* children[i]; fuel bounds the walk on a store whose references form a cycle
RECURSIVE Lookup(_, _, _)
Lookup(o, v, fuel) ==
  IF ~IsBlockOff(file, o) THEN "NotFound"
  ELSE IF fuel = 0 THEN "Diverges"
  ELSE LET n == NodeAt(o)
           i == SearchPos(n, v)
       IN IF i < n.keys_used /\ n.key[i] = v THEN "Found"
          ELSE Lookup(n.block[i], v, fuel - 1)

\* ---- the stored tree measured against its description ----

\* no call of insert_value is running
Idle == pc = "idle"

\* a call of insert_value returns to main in this step
Returns == pc # "idle" /\ pc' = "idle"

Nodes == {NodeAt(o) : o \in AllOffs}

\* C1: after inserts of distinct values into a store created empty, the descent
\* by the smallest i with key[i] >= v finds every value that was inserted and
\* none that was not.
C1_LookupFindsInserted ==
  (Idle /\ allDistinct) =>
     \A v \in Values \ {0} :
        Lookup(h.root_block, v, Len(file) + 1) =
           (IF v \in inserted THEN "Found" ELSE "NotFound")

\* C2: a call of insert_value with a value inserted before changes neither the
\* header on disk nor any node record, and returns a status other than the one
\* a successful insertion returns.
C2_ReinsertChangesNothing ==
  [][(pc # "idle" /\ callPresent)
       => /\ file' = file
          /\ hdisk' = hdisk
          /\ pc' = "idle" => ret' # SUCCESS]_vars

\* C3: after every completed insert, in every node with children and for every
\* populated key i, the keys under block[i] are below key[i] and the keys under
\* block[i+1] are at least key[i].
C3_ChildrenPartitionKeys ==
  Idle =>
    \A n \in Nodes : \A i \in KeyIdx :
       i < n.keys_used =>
          /\ \A k \in KeysUnder(n.block[i]) : k < n.key[i]
          /\ \A k \in KeysUnder(n.block[i + 1]) : k >= n.key[i]

\* C4: at every step the node buffer and every node record hold at most
\* tree_order keys, and when insert_value has returned every node record holds
\* fewer than tree_order keys.
C4_KeyCountBounded ==
  /\ p.keys_used <= h.tree_order
  /\ \A n \in Nodes : n.keys_used <= h.tree_order
  /\ Idle => \A n \in Nodes : n.keys_used < h.tree_order

\* C5: the left and the right node a split leaves hold tree_order-1 keys between
\* them, each between ceil(tree_order/2)-1 and tree_order-1; and after every
\* completed insert every node but the root holds that many.
C5_SplitHalvesBalanced ==
  LET lo == Ceil2(h.tree_order) - 1
      hi == h.tree_order - 1
  IN /\ lastSplit.kind # "none" =>
          LET l == NodeAt(lastSplit.left).keys_used
              r == NodeAt(lastSplit.right).keys_used
          IN l + r = hi /\ l \in lo..hi /\ r \in lo..hi
     /\ Idle => \A o \in AllOffs \ {h.root_block} : NodeAt(o).keys_used \in lo..hi

\* C6: after every completed insert the populated keys of every node record
\* are strictly ascending.
C6_KeysStrictlyAscending ==
  Idle =>
    \A n \in Nodes : \A i, j \in KeyIdx :
       (i < j /\ j < n.keys_used) => n.key[i] < n.key[j]

\* C7: when insert_value returns from a call that found node records in the
\* file, the record the header's root_block names has parent NO_BLOCK and no
\* other record has.
C7_OnlyRootHasNoParent ==
  [][(Returns /\ callBlocks > 0)
       => /\ IsBlockOff(file', h'.root_block)
          /\ \A i \in 1..Len(file') :
               (file'[i].parent_block = NO_BLOCK) <=> (Off(i) = h'.root_block)]_vars

\* C8: in a store created empty with tree_order 4, up to three distinct values
\* all lie in one record, the root; the fourth splits the root once, leaving a
\* root of one key and two children that hold the other three keys, two in one
\* and one in the other.
C8_FourthValueSplitsRoot ==
  (Idle /\ nOpens = 1 /\ allDistinct /\ Cardinality(inserted) = nIns) =>
     /\ nIns \in 1..3 =>
          /\ Len(file) = 1
          /\ h.root_block = Off(1)
          /\ PopKeys(file[1]) = inserted
          /\ file[1].keys_used = nIns
     /\ nIns = 4 =>
          /\ Len(file) = 3
          /\ IsBlockOff(file, h.root_block)
          /\ LET r == NodeAt(h.root_block)
                 kids == Children(r)
             IN /\ r.keys_used = 1
                /\ Cardinality(kids) = 2
                /\ h.root_block \notin kids
                /\ {NodeAt(c).keys_used : c \in kids} = {1, 2}
                /\ UNION {PopKeys(NodeAt(c)) : c \in kids} = inserted \ PopKeys(r)
                /\ PopKeys(r) \subseteq inserted

\* C9: the insert into an empty tree leaves exactly one node record, right
\* after the header: a leaf holding exactly the value, with no children and no
\* parent, named as the root by the header in memory and on disk.
C9_FirstInsertMakesLeafRoot ==
  (Idle /\ nOpens = 1 /\ nIns = 1 /\ inserted # {}) =>
     /\ Len(file) = 1
     /\ file[1].is_leaf
     /\ PopKeys(file[1]) = inserted
     /\ file[1].keys_used = 1
     /\ \A i \in BlockIdx : file[1].block[i] = NO_BLOCK
     /\ file[1].parent_block = NO_BLOCK
     /\ h.root_block = h.header_size
     /\ hdisk.root_block = h.header_size

\* C10: every block insert_value and node_overflow create is written at the end
\* of the file as it stands, at an offset above those given out before, so
\* that the file holds one record for every block created.
C10_BlocksAppendedAtEnd ==
  /\ \A i \in 1..Len(allocLog) : allocLog[i][1] = allocLog[i][2]
  /\ \A i, j \in 1..Len(allocLog) : i < j => allocLog[i][1] < allocLog[j][1]
  /\ Len(file) = Len(allocLog)

\* fseek(iop, o, SEEK_SET) returns nonzero: the offset is negative
SeekSetFails(o) == o < 0

\* fread(opt->p, block_size, 1, iop) returns 0: no record lies at the position
FreadFails(f, at) == ~IsBlockOff(f, at) /\ ~InsideRecord(f, at)

\* the step the running call takes next makes a store call that fails: the
\* fread of the descent (line 364), or the fseek of the first pass of the loop
\* over the left son's children (line 442), whose target is block[0]
StoreCallFails ==
  \/ pc = "descend" /\ FreadFails(file, pos)
  \/ pc = "overflow" /\ p.parent_block = NO_BLOCK /\ SeekSetFails(p.block[0])

\* C11: a call of insert_value in which a seek, read or write on the store
\* fails does not return SUCCESS.
C11_FailedStoreCallReported ==
  [][(StoreCallFails /\ pc' = "idle") => ret' # SUCCESS]_vars

\* C12: an OPEN of a file whose stored tree_order is not TREE_ORDER ends with
\* E_INCOMPATIBLE_VERSION, so that no store of another order is ever open.
C12_OpenRejectsOtherOrder ==
  [][((Open \/ \E k \in ForeignOrders : OpenForeign(k))
        /\ exists' /\ hdisk'.tree_order # TREE_ORDER)
       => (ret' = E_INCOMPATIBLE_VERSION /\ ~isOpen')]_vars

\* C13: a SEARCH on a store that was created and never inserted into leaves
\* the status E_TREE_EMPTY.
C13_SearchOfEmptyTree ==
  [][((\E v \in Values : Search(v)) /\ h.root_block = NO_BLOCK /\ file = <<>>)
       => ret' = E_TREE_EMPTY]_vars

\* C15: when insert_value has returned, no record that it wrote is still in the
\* buffer of the stream: every fwrite was followed by a flush.
C15_WritesFlushedOnReturn ==
  (pc = "idle" /\ ret = SUCCESS) => unflushed = {}

\* C14: closing the store and opening the same file again leaves main with the
\* header it held before (sizes, order, root), the same node records, nothing
\* left in a buffer, and so the same keys reachable from the root.
C14_ReopenReproducesStore ==
  [][((Close \/ Open) /\ exists)
       => /\ h' = h
          /\ file' = file
          /\ unflushed' = {}
          /\ (Open => isOpen')
          /\ KeysUnder(h.root_block)' = KeysUnder(h.root_block)]_vars

\* a store holding a split tree has just been closed and opened again
C14_Witness ==
  /\ nOpens >= 2
  /\ isOpen
  /\ Idle
  /\ pos = HeaderSize
  /\ Len(file) >= 3
  /\ Cardinality(inserted) >= 4
  /\ h.root_block = HeaderSize

\* C16: insert_value called on an open store with any value of the key range,
\* 0 included, does not end with an error status.
C16_EveryValueAccepted ==
  [][\A v \in Values : (InsertBegin(v) /\ isOpen) => (pc' # "exit" /\ ret' = SUCCESS)]_vars

\* ---- b_print: the dump tool ----

\* print_b_plus_tree, the while loop (b_print.c line 185): the node images that
\* fread loads from position o on, one per block_size bytes, until fewer than
\* block_size bytes are left
RECURSIVE PrintFrom(_, _)
PrintFrom(f, o) ==
  IF o + BlockSize > FileSize(f) THEN <<>>
  ELSE <<IF IsBlockOff(f, o) THEN f[Idx(o)] ELSE ViewAt(f, o, f[1])>>
         \o PrintFrom(f, o + BlockSize)

\* print_b_plus_tree (b_print.c lines 179-205) run on the file: it seeks to the
\* block_size of the header it read, then prints every image read
print_b_plus_tree == PrintFrom(file, hdisk.block_size)

\* C17: the dump tool run on a store file renders exactly the node records of
\* the file, in file order, each once and as the engine wrote it.
C17_DumpRendersTheRecords ==
  (Idle /\ exists /\ hdisk.block_size = BlockSize) => print_b_plus_tree = file

\* C18: at a node n that the descent of insert_value has read, with i the
\* smallest index whose key is >= value (keys_used if none): the call ends as
\* "value exists" only when i < keys_used and key[i] = value; else, if n has no
\* child at i, the value goes into position i of n; else the descent goes on at
\* block[i].
C18_DescentRule ==
  [][(pc = "descend" /\ IsBlockOff(file, pos))
       => LET n == Fread(file, pos, p).p
              i == SearchPos(n, value)
          IN IF i < n.keys_used /\ n.key[i] = value
               THEN pc' = "idle" /\ file' = file
             ELSE IF n.block[i] = NO_BLOCK
               THEN /\ p' = KeyInsert(n, i, value, NO_BLOCK)
                    /\ file' = Fwrite(file, pos, p')
             ELSE pc' = "descend" /\ pos' = n.block[i]]_vars

\* C19: between calls, the keys in the populated slots of the nodes reachable
\* from the root are exactly the values whose insert returned SUCCESS: none
\* lost, none added.
C19_ReachableKeysAreInserted ==
  Idle => KeysUnder(h.root_block) = inserted

\* C20: a pass of node_overflow over a node other than the root, with left size
\* L: the node's block keeps its first L keys and L+1 children and its parent
\* reference; one block is appended and holds the keys and children after
\* key[L]; the parent's record gains key[L] at the position its keys give, with
\* the appended block in the child slot right after it.
C20_NonRootSplit ==
  [][(/\ pc = "overflow"
      /\ p.parent_block # NO_BLOCK
      /\ IsBlockOff(file, FseekBack(pos))
      /\ IsBlockOff(file, p.parent_block))
       => LET L == left_keys
              ku == p.keys_used
              B == FseekBack(pos)
              R == FileSize(file)
              par == p.parent_block
              m == p.key[L]
              i == ParentPos(NodeAt(par), m)
              left == file'[Idx(B)]
              right == file'[Idx(R)]
              parent == file'[Idx(par)]
          IN /\ Len(file') = Len(file) + 1
             /\ left.keys_used = L
             /\ \A j \in 0..(L - 1) : left.key[j] = p.key[j]
             /\ \A j \in 0..L : left.block[j] = p.block[j]
             /\ left.parent_block = par
             /\ right.keys_used = ku - L - 1
             /\ \A j \in 0..(ku - L - 2) : right.key[j] = p.key[L + 1 + j]
             /\ \A j \in 0..(ku - L - 1) : right.block[j] = p.block[L + 1 + j]
             /\ parent.keys_used = NodeAt(par).keys_used + 1
             /\ parent.key[i] = m
             /\ parent.block[i + 1] = R]_vars

\* C21: between calls, every record that a node reachable from the root refers
\* to in its child slots 0..keys_used carries that node's offset as its
\* parent_block.
C21_ChildrenPointBack ==
  Idle => \A o \in Subtree(h.root_block) :
            \A c \in Children(NodeAt(o)) : NodeAt(c).parent_block = o

\* C22: between calls, every node reachable from the root that has a child has
\* a child in each of its slots 0..keys_used.
C22_ChildPerSlot ==
  Idle => \A o \in Subtree(h.root_block) :
            LET n == NodeAt(o)
            IN (\E j \in BlockIdx : n.block[j] # NO_BLOCK)
                 => \A j \in 0..n.keys_used : n.block[j] # NO_BLOCK

\* C23: the descent loop of every call of insert_value ends: the value is found
\* or placed, and the call goes on to return or to resolve the overflow.
C23_DescentEnds ==
  (pc = "descend") ~> (pc # "descend")

\* C24: once the tree has a root, no step of an insert changes the header, in
\* memory or in the file; and a pass of node_overflow that splits the root
\* leaves, in the block the header names, a record with one key (the median of
\* the split node), parent none, and two children: the two blocks it made.
C24_RootStaysInPlace ==
  [][(h.root_block # NO_BLOCK /\ nOpens' = nOpens)
       => /\ h' = h
          /\ hdisk' = hdisk
          /\ (pc = "overflow" /\ p.parent_block = NO_BLOCK /\ pc' = "idle")
               => /\ IsBlockOff(file', h.root_block)
                  /\ LET r == file'[Idx(h.root_block)]
                     IN /\ r.keys_used = 1
                        /\ r.key[0] = p.key[left_keys]
                        /\ r.parent_block = NO_BLOCK
                        /\ r.block[0] = lastSplit'.left
                        /\ r.block[1] = lastSplit'.right
                        /\ IsBlockOff(file', r.block[0])
                        /\ IsBlockOff(file', r.block[1])
                        /\ r.block[0] # r.block[1]]_vars

\* C25: every CREATE leaves a file whose header has no root, and main with that
\* header, whatever was done in the session before.
C25_CreateStartsEmpty ==
  [][Create => (hdisk'.root_block = NO_BLOCK /\ h'.root_block = NO_BLOCK)]_vars

====
